---- MODULE Spec2Model ----
(***************************************************************************)
(* Model of raster's editor module (src/src/editor.rs): blend, crop and    *)
(* fill, together with the parts of the crate they call (Position, Image,  *)
(* Color, the per-mode blend operations).                                  *)
(*                                                                         *)
(* The state is the image an editing call mutates (src), plus a record of  *)
(* the call that has just returned: its arguments, the values of its       *)
(* locals, the pixel accesses it made, the external blend operations it    *)
(* invoked and its result.  Return drops that record again.                *)
(***************************************************************************)
EXTENDS Integers, Sequences, FiniteSets, TLC

VARIABLES src, old, op, args, local, calls, ret

vars == <<src, old, op, args, local, calls, ret>>

(***************************************************************************)
(* Bounds of the model.                                                    *)
(***************************************************************************)
\* images start with width and height in 0..MaxDim
MaxDim == 2
\* offset_x and offset_y range over -MaxOff..MaxOff
MaxOff == 1
\* crop_width and crop_height range over -1..MaxDim+1

Dims == 0..MaxDim
Offsets == (0 - MaxOff)..MaxOff
CropDims == (0 - 1)..(MaxDim + 1)

(***************************************************************************)
(* Color and Image.                                                        *)
(***************************************************************************)
rgba(r, g, b, a) == [r |-> r, g |-> g, b |-> b, a |-> a]

\* Image::blank(w, h): the given dimensions and four zero bytes for each of
\* the w * h pixels (no bytes when there is no pixel).
blank(w, h) ==
    [width |-> w, height |-> h,
     bytes |-> IF w > 0 /\ h > 0 THEN [k \in 1..(w * h * 4) |-> 0] ELSE <<>>]

\* Image::get_pixel: fails outside 0 <= x < width, 0 <= y < height.
get_pixel(image, x, y) ==
    IF x < 0 \/ x >= image.width \/ y < 0 \/ y >= image.height
    THEN [ok |-> FALSE, color |-> rgba(0, 0, 0, 0)]
    ELSE LET start == (y * image.width + x) * 4
         IN [ok |-> TRUE,
             color |-> rgba(image.bytes[start + 1], image.bytes[start + 2],
                            image.bytes[start + 3], image.bytes[start + 4])]

\* Image::set_pixel: fails outside 0 <= x < width, 0 <= y < height.
set_pixel(image, x, y, color) ==
    IF x < 0 \/ x >= image.width \/ y < 0 \/ y >= image.height
    THEN [ok |-> FALSE, image |-> image]
    ELSE LET start == (y * image.width + x) * 4
         IN [ok |-> TRUE,
             image |-> [image EXCEPT
                 !.bytes = [[[[@ EXCEPT ![start + 1] = color.r]
                                 EXCEPT ![start + 2] = color.g]
                                 EXCEPT ![start + 3] = color.b]
                                 EXCEPT ![start + 4] = color.a]]]

(***************************************************************************)
(* Position.                                                               *)
(***************************************************************************)
Positions ==
    {"top-left", "top-center", "top-right",
     "center-left", "center", "center-right",
     "bottom-left", "bottom-center", "bottom-right"}

\* i32 division truncates toward zero
TruncDiv(a, b) == IF a >= 0 THEN a \div b ELSE 0 - ((0 - a) \div b)

\* Position::get_x_y: the anchor's base placement plus the offsets, unclamped.
get_x_y(position, offset_x, offset_y, canvas_width, canvas_height, image_width, image_height) ==
    LET x == CASE position \in {"top-left", "center-left", "bottom-left"} -> 0
               [] position \in {"top-center", "center", "bottom-center"} ->
                      TruncDiv(canvas_width - image_width, 2)
               [] OTHER -> canvas_width - image_width
        y == CASE position \in {"top-left", "top-center", "top-right"} -> 0
               [] position \in {"center-left", "center", "center-right"} ->
                      TruncDiv(canvas_height - image_height, 2)
               [] OTHER -> canvas_height - image_height
    IN <<x + offset_x, y + offset_y>>

(***************************************************************************)
(* blend.                                                                  *)
(***************************************************************************)
Upper == <<"A", "B", "C", "D", "E", "F", "G", "H", "I", "J", "K", "L", "M",
           "N", "O", "P", "Q", "R", "S", "T", "U", "V", "W", "X", "Y", "Z">>
Lower == <<"a", "b", "c", "d", "e", "f", "g", "h", "i", "j", "k", "l", "m",
           "n", "o", "p", "q", "r", "s", "t", "u", "v", "w", "x", "y", "z">>

\* a mode name is a sequence of characters
LowerChar(c) ==
    IF \E i \in 1..Len(Upper) : Upper[i] = c
    THEN Lower[CHOOSE i \in 1..Len(Upper) : Upper[i] = c]
    ELSE c

to_lowercase_keep(s) == s

\* blend_mode.to_lowercase()
to_lowercase(s) == [i \in 1..Len(s) |-> LowerChar(s[i])]

normal == <<"n", "o", "r", "m", "a", "l">>
difference == <<"d", "i", "f", "f", "e", "r", "e", "n", "c", "e">>
multiply == <<"m", "u", "l", "t", "i", "p", "l", "y">>
overlay == <<"o", "v", "e", "r", "l", "a", "y">>
screen == <<"s", "c", "r", "e", "e", "n">>

\* the arms of `match &*blend_mode`: the blend operation a lower-cased name
\* selects, "none" for the `_` arm
BlendOperation(blend_mode) ==
    CASE blend_mode = normal -> "normal"
      [] blend_mode = difference -> "difference"
      [] blend_mode = multiply -> "multiply"
      [] blend_mode = overlay -> "overlay"
      [] blend_mode = screen -> "screen"
      [] OTHER -> "none"

\* the opacity clamp, opacity in tenths
ClampOpacity(opacity) ==
    IF opacity > 10 THEN 10 ELSE IF opacity < 0 THEN 0 ELSE opacity

BlendPlacementSwapped(image1, image2, position, offset_x, offset_y) ==
    get_x_y(position, offset_x, offset_y,
            image2.width, image2.height, image1.width, image1.height)

\* Position is for image2, image1 is canvas.
BlendPlacement(image1, image2, position, offset_x, offset_y) ==
    get_x_y(position, offset_x, offset_y,
            image1.width, image1.height, image2.width, image2.height)

FallsOutsideStrict(offset_x, offset_y, w1, h1, w2, h2) ==
    \/ offset_x >= w1
    \/ offset_x + w2 < 0
    \/ offset_y >= h1
    \/ offset_y + h2 < 0

\* Check if it overlaps
FallsOutside(offset_x, offset_y, w1, h1, w2, h2) ==
    \/ offset_x >= w1
    \/ offset_x + w2 <= 0
    \/ offset_y >= h1
    \/ offset_y + h2 <= 0

LoopStartSigned(canvas_start) ==
    IF canvas_start < 0 THEN 0 + canvas_start ELSE 0

\* Loop start X / Loop start Y
LoopStart(canvas_start) ==
    IF canvas_start < 0 THEN 0 + (0 - canvas_start) ELSE 0

LoopEndAlways(offset, size2, size1) == size2 - ((offset + size2) - size1)

\* Loop end X / Loop end Y
LoopEnd(offset, size2, size1) ==
    LET canvas_end == offset + size2
    IN IF canvas_end > size1 THEN size2 - (canvas_end - size1) ELSE size2

\* the mode names blend is called with
normal_upper == <<"N", "O", "R", "M", "A", "L">>
difference_cap == <<"D", "i", "f", "f", "e", "r", "e", "n", "c", "e">>
multiply_mixed == <<"m", "u", "L", "T", "i", "p", "l", "Y">>
screen_mixed == <<"s", "C", "r", "E", "e", "N">>
dissolve == <<"D", "i", "s", "s", "o", "l", "v", "e">>
normal_space == <<"n", "o", "r", "m", "a", "l", " ">>

ModeNames ==
    {normal_upper, difference_cap, multiply_mixed, overlay, screen_mixed,
     <<>>, dissolve, normal_space}

Opacities == {5, 15}

blend(image2, blend_mode, opacity, position, offset_x, offset_y) ==
    /\ LET image1 == src
           opacity_ == ClampOpacity(opacity)
           p == BlendPlacement(image1, image2, position, offset_x, offset_y)
           w1 == image1.width
           h1 == image1.height
           w2 == image2.width
           h2 == image2.height
           outside == FallsOutside(p[1], p[2], w1, h1, w2, h2)
           loop_start_x == LoopStart(p[1])
           loop_end_x == LoopEnd(p[1], w2, w1)
           loop_start_y == LoopStart(p[2])
           loop_end_y == LoopEnd(p[2], h2, h1)
           mode == to_lowercase(blend_mode)
           operation == BlendOperation(mode)
       IN /\ op' = "blend"
          /\ args' = [image1 |-> image1, image2 |-> image2, blend_mode |-> blend_mode,
                      opacity |-> opacity, position |-> position,
                      offset_x |-> offset_x, offset_y |-> offset_y]
          /\ IF outside
             THEN /\ local' = [offset_x |-> p[1], offset_y |-> p[2], clipped |-> FALSE]
                  /\ calls' = <<>>
                  /\ ret' = "BlendingImageFallsOutsideCanvas"
             ELSE /\ local' = [offset_x |-> p[1], offset_y |-> p[2], clipped |-> TRUE,
                               loop_start_x |-> loop_start_x, loop_end_x |-> loop_end_x,
                               loop_start_y |-> loop_start_y, loop_end_y |-> loop_end_y]
                  /\ IF operation = "none"
                     THEN /\ calls' = <<>>
                          /\ ret' = "InvalidBlendMode"
                     ELSE /\ calls' = <<[operation |-> operation,
                                         image1 |-> image1, image2 |-> image2,
                                         loop_start_y |-> loop_start_y,
                                         loop_end_y |-> loop_end_y,
                                         loop_start_x |-> loop_start_x,
                                         loop_end_x |-> loop_end_x,
                                         offset_x |-> p[1], offset_y |-> p[2],
                                         opacity |-> opacity_]>>
                          /\ ret' = "Ok"
    /\ UNCHANGED <<src, old>>

(***************************************************************************)
(* crop.                                                                   *)
(***************************************************************************)
\* let offset_x = if offset_x < 0 { 0 } else { offset_x };
CropOffset(offset) == IF offset < 0 THEN 0 ELSE offset

CropEndUnclamped(offset, crop_size, src_size) == offset + crop_size

CropEndShort(offset, crop_size, src_size) ==
    IF offset + crop_size >= src_size THEN src_size - 1 ELSE offset + crop_size

\* width2 / height2: offset + crop size, clamped to the source size
CropEnd(offset, crop_size, src_size) ==
    IF offset + crop_size > src_size THEN src_size ELSE offset + crop_size

RECURSIVE CropLoopNoOffset(_, _, _, _, _, _, _)
CropLoopNoOffset(source, dest, offset_x, offset_y, n, reads, writes) ==
    IF dest.width <= 0 \/ dest.height <= 0 \/ n >= dest.width * dest.height
    THEN [ok |-> TRUE, dest |-> dest, reads |-> reads, writes |-> writes]
    ELSE LET x == n % dest.width
             y == n \div dest.width
             pixel == get_pixel(source, x, y)
             put == set_pixel(dest, x, y,
                              rgba(pixel.color.r, pixel.color.g, pixel.color.b, pixel.color.a))
         IN IF ~pixel.ok
            THEN [ok |-> FALSE, dest |-> dest,
                  reads |-> reads \cup {<<x, y>>}, writes |-> writes]
            ELSE IF ~put.ok
            THEN [ok |-> FALSE, dest |-> dest,
                  reads |-> reads \cup {<<x, y>>},
                  writes |-> writes \cup {<<x, y>>}]
            ELSE CropLoopNoOffset(source, put.image, offset_x, offset_y, n + 1,
                          reads \cup {<<x, y>>},
                          writes \cup {<<x, y>>})

\* for y in 0..dest.height { for x in 0..dest.width { ... } }, from the n-th
\* pixel in row-major order on; stops at the first failing read or write
RECURSIVE CropLoop(_, _, _, _, _, _, _)
CropLoop(source, dest, offset_x, offset_y, n, reads, writes) ==
    IF dest.width <= 0 \/ dest.height <= 0 \/ n >= dest.width * dest.height
    THEN [ok |-> TRUE, dest |-> dest, reads |-> reads, writes |-> writes]
    ELSE LET x == n % dest.width
             y == n \div dest.width
             pixel == get_pixel(source, offset_x + x, offset_y + y)
             put == set_pixel(dest, x, y,
                              rgba(pixel.color.r, pixel.color.g, pixel.color.b, pixel.color.a))
         IN IF ~pixel.ok
            THEN [ok |-> FALSE, dest |-> dest,
                  reads |-> reads \cup {<<offset_x + x, offset_y + y>>}, writes |-> writes]
            ELSE IF ~put.ok
            THEN [ok |-> FALSE, dest |-> dest,
                  reads |-> reads \cup {<<offset_x + x, offset_y + y>>},
                  writes |-> writes \cup {<<x, y>>}]
            ELSE CropLoop(source, put.image, offset_x, offset_y, n + 1,
                          reads \cup {<<offset_x + x, offset_y + y>>},
                          writes \cup {<<x, y>>})

crop(crop_width, crop_height, position, offset_x, offset_y) ==
    /\ LET p == get_x_y(position, offset_x, offset_y,
                        src.width, src.height, crop_width, crop_height)
           offset_x_ == CropOffset(p[1])
           offset_y_ == CropOffset(p[2])
           height2 == CropEnd(offset_y_, crop_height, src.height)
           width2 == CropEnd(offset_x_, crop_width, src.width)
           dest == blank(width2 - offset_x_, height2 - offset_y_)
           loop == CropLoop(src, dest, offset_x_, offset_y_, 0, {}, {})
       IN /\ op' = "crop"
          /\ args' = [crop_width |-> crop_width, crop_height |-> crop_height,
                      position |-> position,
                      offset_x |-> offset_x, offset_y |-> offset_y]
          /\ local' = [x |-> p[1], y |-> p[2],
                       offset_x |-> offset_x_, offset_y |-> offset_y_,
                       width2 |-> width2, height2 |-> height2,
                       dest_width |-> dest.width, dest_height |-> dest.height,
                       reads |-> loop.reads, writes |-> loop.writes]
          /\ old' = src
          /\ IF loop.ok
             THEN /\ src' = [width |-> loop.dest.width, height |-> loop.dest.height,
                             bytes |-> loop.dest.bytes]
                  /\ ret' = "Ok"
             ELSE /\ src' = src
                  /\ ret' = "PixelError"
    /\ UNCHANGED calls

(***************************************************************************)
(* fill.                                                                   *)
(***************************************************************************)
RECURSIVE FillLoopSwapped(_, _, _)
FillLoopSwapped(image, color, n) ==
    IF image.width <= 0 \/ image.height <= 0 \/ n >= image.width * image.height
    THEN [ok |-> TRUE, image |-> image]
    ELSE LET x == n \div image.width
             y == n % image.width
             put == set_pixel(image, x, y, color)
         IN IF ~put.ok
            THEN [ok |-> FALSE, image |-> image]
            ELSE FillLoopSwapped(put.image, color, n + 1)

\* for y in 0..src.height { for x in 0..src.width { ... } }, from the n-th
\* pixel in row-major order on; stops at the first failing write
RECURSIVE FillLoop(_, _, _)
FillLoop(image, color, n) ==
    IF image.width <= 0 \/ image.height <= 0 \/ n >= image.width * image.height
    THEN [ok |-> TRUE, image |-> image]
    ELSE LET x == n % image.width
             y == n \div image.width
             put == set_pixel(image, x, y, color)
         IN IF ~put.ok
            THEN [ok |-> FALSE, image |-> image]
            ELSE FillLoop(put.image, color, n + 1)

\* Color::red() and a translucent colour
Colors == {rgba(255, 0, 0, 255), rgba(1, 2, 3, 0)}

fill(color) ==
    /\ LET loop == FillLoop(src, color, 0)
       IN /\ op' = "fill"
          /\ args' = [color |-> color]
          /\ local' = <<>>
          /\ old' = src
          /\ src' = loop.image
          /\ ret' = IF loop.ok THEN "Ok" ELSE "PixelError"
    /\ UNCHANGED calls

(***************************************************************************)
(* The caller drops the result of the call that returned.                  *)
(***************************************************************************)
Return ==
    /\ op # "idle"
    /\ op' = "idle"
    /\ args' = <<>>
    /\ local' = <<>>
    /\ calls' = <<>>
    /\ ret' = "none"
    /\ old' = src
    /\ UNCHANGED src

(***************************************************************************)
(* Specifications.                                                         *)
(***************************************************************************)
\* a decoded image: every pixel differs from every other one
Decoded(w, h) ==
    [width |-> w, height |-> h,
     bytes |-> [k \in 1..(w * h * 4) |->
                   LET c == (k - 1) % 4
                       x == ((k - 1) \div 4) % w
                       y == ((k - 1) \div 4) \div w
                   IN CASE c = 0 -> 10 + x
                        [] c = 1 -> 20 + y
                        [] c = 2 -> 30 + x + y
                        [] OTHER -> 200 + x * (MaxDim + 1) + y]]

Images == {Decoded(w, h) : w \in Dims, h \in Dims}

\* overlays may be larger than every canvas
Overlays == {blank(w, h) : w \in 0..(MaxDim + 1), h \in 0..(MaxDim + 1)}

Init ==
    /\ src \in Images
    /\ old = src
    /\ op = "idle"
    /\ args = <<>>
    /\ local = <<>>
    /\ calls = <<>>
    /\ ret = "none"

\* an image satisfies the Image invariant
Valid(image) ==
    /\ image.width >= 0
    /\ image.height >= 0
    /\ Len(image.bytes) = image.width * image.height * 4

\* a caller calls when no call is outstanding, on an image that satisfies
\* the Image invariant
CanCall == op = "idle" /\ Valid(src)

Crop ==
    /\ CanCall
    /\ \E crop_width \in CropDims, crop_height \in CropDims, position \in Positions,
       offset_x \in Offsets, offset_y \in Offsets :
        crop(crop_width, crop_height, position, offset_x, offset_y)

Fill == CanCall /\ \E color \in Colors : fill(color)

Blend ==
    /\ CanCall
    /\ \E image2 \in Overlays, blend_mode \in ModeNames, opacity \in Opacities,
       position \in Positions, offset_x \in Offsets, offset_y \in Offsets :
        blend(image2, blend_mode, opacity, position, offset_x, offset_y)

Next == Crop \/ Fill \/ Return

Spec == Init /\ [][Next]_vars

NextBlend == Blend \/ Return

SpecBlend == Init /\ [][NextBlend]_vars

(***************************************************************************)
(* Properties of blend, checked under SpecBlend.                           *)
(***************************************************************************)
w1 == args.image1.width
h1 == args.image1.height
w2 == args.image2.width
h2 == args.image2.height

\* the overlap condition on the resolved placement
Overlaps ==
    /\ local.offset_x < w1
    /\ local.offset_x + w2 > 0
    /\ local.offset_y < h1
    /\ local.offset_y + h2 > 0

\* the resolved placement keeps the overlay fully inside the canvas
Inside ==
    /\ 0 <= local.offset_x
    /\ local.offset_x + w2 <= w1
    /\ 0 <= local.offset_y
    /\ local.offset_y + h2 <= h1

\* C1: once blend is past the overlap test, an overlay-local pixel (i, j) of
\* the overlay lies within the four loop bounds exactly when x + i, y + j is a
\* canvas coordinate.
C1_ClipSelectsCanvasPixels ==
    (op = "blend" /\ local.clipped) =>
        \A i \in 0..(w2 - 1), j \in 0..(h2 - 1) :
            (/\ local.loop_start_x <= i
             /\ i < local.loop_end_x
             /\ local.loop_start_y <= j
             /\ j < local.loop_end_y)
            <=> (/\ 0 <= local.offset_x + i
                 /\ local.offset_x + i < w1
                 /\ 0 <= local.offset_y + j
                 /\ local.offset_y + j < h1)

\* an overlay wider than the canvas at a negative x: clipped on both sides
C1_Witness ==
    /\ op = "blend"
    /\ local.clipped
    /\ local.offset_x < 0
    /\ local.offset_x + w2 > w1
    /\ local.loop_start_x > 0
    /\ local.loop_end_x < w2
    /\ local.loop_start_x < local.loop_end_x
    /\ local.loop_start_y < local.loop_end_y

\* C2: blend fails with BlendingImageFallsOutsideCanvas exactly when the
\* resolved placement does not overlap the canvas, and then invokes no blend
\* operation.
C2_OutsideIffNoOverlap ==
    op = "blend" =>
        /\ (ret = "BlendingImageFallsOutsideCanvas") <=> ~Overlaps
        /\ (ret = "BlendingImageFallsOutsideCanvas") => calls = <<>>

\* a non-empty overlay that only touches the canvas's left edge from outside
C2_Witness ==
    /\ op = "blend"
    /\ w2 > 0
    /\ local.offset_x + w2 = 0
    /\ local.offset_y >= 0
    /\ local.offset_y < h1
    /\ ret = "BlendingImageFallsOutsideCanvas"
    /\ calls = <<>>

\* two characters are the same letter in some letter case
SameLetter(c, d) ==
    \/ c = d
    \/ \E i \in 1..Len(Upper) : {c, d} = {Upper[i], Lower[i]}

EqIgnoreCase(s, t) ==
    /\ Len(s) = Len(t)
    /\ \A i \in 1..Len(s) : SameLetter(s[i], t[i])

KnownMode(name) ==
    \E m \in {normal, difference, multiply, overlay, screen} : EqIgnoreCase(name, m)

\* C3 as stated: an unknown mode name always fails with InvalidBlendMode, also
\* when the overlay does not intersect the canvas, and invokes no blend
\* operation; a known name in any letter case is never rejected as invalid.
C3_InvalidModeAlways ==
    op = "blend" =>
        IF KnownMode(args.blend_mode)
        THEN ret # "InvalidBlendMode"
        ELSE ret = "InvalidBlendMode" /\ calls = <<>>

\* C3 amended: an unknown mode name fails with InvalidBlendMode when the
\* placement overlaps the canvas and with BlendingImageFallsOutsideCanvas when
\* it does not; either way no blend operation is invoked; a known name in any
\* letter case is never rejected as invalid.
C3_InvalidModeAfterOverlapTest ==
    op = "blend" =>
        IF KnownMode(args.blend_mode)
        THEN ret # "InvalidBlendMode"
        ELSE /\ ret = IF Overlaps THEN "InvalidBlendMode"
                      ELSE "BlendingImageFallsOutsideCanvas"
             /\ calls = <<>>

\* an unknown name on an overlapping overlay
C3_Witness ==
    /\ op = "blend"
    /\ ~KnownMode(args.blend_mode)
    /\ Overlaps
    /\ ret = "InvalidBlendMode"
    /\ calls = <<>>

\* the clip region blend computed, and the one it passed on, is the full overlay
FullClip ==
    /\ ret # "BlendingImageFallsOutsideCanvas"
    /\ local.clipped
    /\ local.loop_start_x = 0
    /\ local.loop_end_x = w2
    /\ local.loop_start_y = 0
    /\ local.loop_end_y = h2
    /\ \A k \in 1..Len(calls) :
        /\ calls[k].loop_start_x = 0
        /\ calls[k].loop_end_x = w2
        /\ calls[k].loop_start_y = 0
        /\ calls[k].loop_end_y = h2

\* C4 as stated: for a placement fully inside the canvas blend gets past the
\* overlap test and the clip region is the full overlay.
C4_InsideFullClip ==
    (op = "blend" /\ Inside) => FullClip

\* C4 amended: for a placement of a non-empty overlay (width > 0, height > 0)
\* fully inside the canvas blend gets past the overlap test and the clip region
\* is the full overlay.
C4_InsideNonEmptyFullClip ==
    (op = "blend" /\ Inside /\ w2 > 0 /\ h2 > 0) => FullClip

\* a non-empty overlay strictly smaller than the canvas, blended
C4_Witness ==
    /\ op = "blend"
    /\ Inside
    /\ w2 > 0
    /\ h2 > 0
    /\ local.offset_x + w2 < w1
    /\ Len(calls) = 1
    /\ calls[1].loop_end_x = w2
    /\ ret = "Ok"

\* C8: with offsets (0, 0) and an overlay no larger than the canvas, each
\* anchor's placement keeps the overlay fully inside the canvas.
C8_ZeroOffsetInside ==
    (/\ op = "blend"
     /\ args.offset_x = 0
     /\ args.offset_y = 0
     /\ w2 <= w1
     /\ h2 <= h1) => Inside

\* a centre anchor whose division truncates
C8_Witness ==
    /\ op = "blend"
    /\ args.offset_x = 0
    /\ args.offset_y = 0
    /\ args.position = "center"
    /\ w2 > 0
    /\ (w1 - w2) % 2 = 1
    /\ h2 > 0
    /\ (h1 - h2) % 2 = 1
    /\ Inside

(***************************************************************************)
(* Properties of crop and fill, checked under Spec.                        *)
(***************************************************************************)
Max(a, b) == IF a > b THEN a ELSE b
Min(a, b) == IF a < b THEN a ELSE b

\* C5: after any sequence of crop and fill calls the image has width >= 0,
\* height >= 0 and width * height * 4 bytes.
C5_ImageInvariant ==
    /\ src.width >= 0
    /\ src.height >= 0
    /\ Len(src.bytes) = src.width * src.height * 4

\* C6 as stated: crop of an image that already has the crop's width and
\* height leaves the image as it was, for every anchor and all offsets.
C6_RecropIdentical ==
    (/\ op = "crop"
     /\ old.width = args.crop_width
     /\ old.height = args.crop_height) => src = old

\* C6 amended: crop of an image that already has the crop's width and height
\* leaves the image as it was, for every anchor and all offsets that are both
\* zero or negative.
C6_RecropIdenticalNoPositiveOffset ==
    (/\ op = "crop"
     /\ old.width = args.crop_width
     /\ old.height = args.crop_height
     /\ args.offset_x <= 0
     /\ args.offset_y <= 0) => src = old

\* a non-empty image cropped again to its own size with a negative offset
C6_Witness ==
    /\ op = "crop"
    /\ old.width = args.crop_width
    /\ old.height = args.crop_height
    /\ old.width > 1
    /\ old.height > 0
    /\ args.offset_x < 0
    /\ args.offset_y <= 0
    /\ src = old

\* C7: after a successful crop with resolved placement (x, y), ox = max(0, x),
\* oy = max(0, y): the new width is min(ox + crop_width, old width) - ox, the
\* new height min(oy + crop_height, old height) - oy, and each pixel (i, j) of
\* the new image is the pixel (ox + i, oy + j) of the image before the call.
C7_CropCopiesWindow ==
    (op = "crop" /\ ret = "Ok") =>
        LET ox == Max(0, local.x)
            oy == Max(0, local.y)
        IN /\ src.width = Min(ox + args.crop_width, old.width) - ox
           /\ src.height = Min(oy + args.crop_height, old.height) - oy
           /\ \A i \in 0..(src.width - 1), j \in 0..(src.height - 1) :
               /\ get_pixel(src, i, j).ok
               /\ get_pixel(old, ox + i, oy + j).ok
               /\ get_pixel(src, i, j).color = get_pixel(old, ox + i, oy + j).color

\* a crop window that starts inside the image and is cut off at its far edges
C7_Witness ==
    /\ op = "crop"
    /\ ret = "Ok"
    /\ local.x > 0
    /\ local.y > 0
    /\ local.x + args.crop_width > old.width
    /\ local.y + args.crop_height > old.height
    /\ src.width > 0
    /\ src.height > 0
    /\ src # old

\* C9: fill succeeds, keeps width, height and buffer length, and leaves every
\* pixel equal to the fill colour in all four channels.
C9_FillEveryPixel ==
    op = "fill" =>
        /\ ret = "Ok"
        /\ src.width = old.width
        /\ src.height = old.height
        /\ Len(src.bytes) = Len(old.bytes)
        /\ \A x \in 0..(src.width - 1), y \in 0..(src.height - 1) :
            /\ get_pixel(src, x, y).ok
            /\ get_pixel(src, x, y).color = args.color

\* a fill that changed a non-square image of several pixels
C9_Witness ==
    /\ op = "fill"
    /\ ret = "Ok"
    /\ old.width > 1
    /\ old.height > 0
    /\ old.width # old.height
    /\ src # old
    /\ get_pixel(src, old.width - 1, old.height - 1).color = args.color

\* C10: every pixel crop reads is inside the source image, every pixel it
\* writes is inside the new buffer, and crop returns no pixel error.
C10_CropStaysInBounds ==
    op = "crop" =>
        /\ ret = "Ok"
        /\ \A r \in local.reads :
            /\ 0 <= r[1]
            /\ r[1] < old.width
            /\ 0 <= r[2]
            /\ r[2] < old.height
        /\ \A w \in local.writes :
            /\ 0 <= w[1]
            /\ w[1] < local.dest_width
            /\ 0 <= w[2]
            /\ w[2] < local.dest_height

\* a crop rectangle that starts before the origin and ends past the image
C10_Witness ==
    /\ op = "crop"
    /\ ret = "Ok"
    /\ local.x < 0
    /\ local.y <= 0
    /\ local.x + args.crop_width > old.width
    /\ local.y + args.crop_height >= old.height
    /\ old.height > 1
    /\ Cardinality(local.reads) = old.width * old.height
    /\ Cardinality(local.writes) > 1

====
